---- MODULE Spec2Model ----
(***************************************************************************)
(* A model of casetext/firebase-admin: FirebaseAccount (account.js) and    *)
(* FirebaseInstance (instance.js), the promises their methods return, the  *)
(* HTTP requests they have in flight and the remote service they talk to.  *)
(*                                                                         *)
(* Scheduling.  Node runs one callback at a time.  Every deferred is       *)
(* settled inside the callback of an HTTP request, and Q runs the          *)
(* then-handlers of a settled promise from process.nextTick, before the    *)
(* next I/O callback; the handlers of the library (instance.js:195,        *)
(* account.js:147) therefore run in the same step as the callback that     *)
(* settled the promise they wait for.  An exception thrown inside an HTTP  *)
(* callback leaves the deferred of that call unsettled.                    *)
(*                                                                         *)
(* Remote service.  The remote answers a request when its callback is      *)
(* delivered.  It applies the effect of a request exactly when it answers  *)
(* with the well-formed success answer of the endpoint (ServerOk); every   *)
(* other answer (transport error, other status, error body, malformed      *)
(* body) leaves the remote state alone.  It carries a request out only for *)
(* a database that exists and, on the endpoints of the database itself,    *)
(* only for a caller that presents the personal token.  No other client    *)
(* mutates the remote.                                                     *)
(*                                                                         *)
(* Secrets.  The requests on the secret list (.settings/secrets) are the   *)
(* ones whose answers feed the authTokens cache, so for them the moment    *)
(* the remote carries a request out (SecretsServer) is a step of its own,  *)
(* before the delivery of the callback: an answer can be stale when it is  *)
(* delivered, and the callback can be handed a failure (a lost answer)     *)
(* after the remote has carried the request out.                           *)
(***************************************************************************)
EXTENDS Integers, Sequences, FiniteSets, TLC

\* ------------------------------------------------------------------ bounds
MaxCalls == 3      \* public calls made in one run

Names  == {"fb1", "fb2"}

\* Secrets are the numbers the remote hands out: 0 is the secret a new
\* database starts with, addAuthToken returns 1, 2, ...; -1 is a string that
\* is no secret of any database.
NoSecret == -1

VARIABLES
  dbs,            \* FirebaseAccount._dbs: name -> Instance object (0: no entry)
  inst,           \* the FirebaseInstance objects constructed so far
  calls,          \* the public calls in flight, in the order they were made
  last,           \* the call that took the latest step, as that step left it
  ncalls,         \* the number of public calls made so far
  held,           \* the Instance objects the caller was handed
  hist,           \* history: created[n] is the Instance the latest resolved
                  \* createDatabase(n) resolved with (NoInst once a
                  \* deleteDatabase of a database n was called); written[n]
                  \* is the argument of the latest setRules the remote
                  \* database n accepted; input is the rules document the
                  \* caller of SpecRules passes to setRules; removed holds
                  \* <<Instance, t>> once a removeAuthToken(t) resolved
                  \* on the answer of the remote that it deleted t
  remoteDbs,      \* remote: names of the databases that exist
  remoteSecrets,  \* remote: name -> the secret list of that database
  remoteRules,    \* remote: name -> the rules document of that database
  nextToken       \* remote: the next secret addAuthToken hands out

vars == <<dbs, inst, calls, last, ncalls, held, hist, remoteDbs, remoteSecrets, remoteRules, nextToken>>

NoInst == 0

\* ------------------------------------------------- JSON documents (rules)
\* A JSON value is the set of its <<path, leaf>> pairs; the leaf "{}" is an
\* empty object and "undefined" is JavaScript's undefined.
RuleDepth == 1
Keys   == {"rules", ".read"}
Leaves == {"true", "false", "null", "{}"}

Leaf(l) == {<< <<>>, l >>}
Undefined == Leaf("undefined")

\* {k: v}
Wrap(k, v) == {<< <<k>> \o e[1], e[2] >> : e \in v}

\* the object with the members f[k], k \in DOMAIN f
ObjectOf(f) == UNION {Wrap(k, f[k]) : k \in DOMAIN f}

RECURSIVE Docs(_)
Docs(d) ==
  IF d = 0 THEN {Leaf(l) : l \in Leaves}
  ELSE LET sub == Docs(d - 1)
       IN  {Leaf(l) : l \in Leaves} \cup
           UNION {{ObjectOf(f) : f \in [S -> sub]} : S \in (SUBSET Keys) \ {{}}}

RuleDocs == Docs(RuleDepth)

\* Object.keys(v) of an object v
ObjectKeys(v) == {e[1][1] : e \in {x \in v : Len(x[1]) > 0}}

\* v[k]: undefined when v has no member k (also when v is a boolean)
Member(v, k) ==
  LET s == {e \in v : Len(e[1]) > 0 /\ e[1][1] = k}
  IN  IF s = {} THEN Undefined ELSE {<<Tail(e[1]), e[2]>> : e \in s}

\* JavaScript truthiness of a JSON value
Truthy(v) == v \notin {Leaf("false"), Leaf("null"), Undefined}

\* a property read of null or undefined throws a TypeError
ThrowsOnRead(v) == v \in {Leaf("null"), Undefined}

\* ------------------------------------------------------- HTTP responses
\* What the callback function(err, response, body) of a request receives.
\* err: a transport error (then there is no response and no body).
\* body kinds:
\*   "absent"       no body (undefined)
\*   "nonjson"      a body that is not JSON (for json:true it stays a string);
\*                  the body of a secrets POST is the new secret, a string,
\*                  so there "ok" stands for every string body
\*   "error"        an object with an error field
\*   "successFalse" an object with success: false
\*   "statusFail"   an object with a status field other than 'ok'
\*   "missing"      an object without the (first) field the caller reads
\*   "missing2"     a token answer with personalToken but no firebaseToken
\*   "emptyConfig"  a settings document whose authConfig is ''
\*   "badConfig"    a settings document whose authConfig is no JSON text
\*   "emptyUsers"   a users answer whose users field is the empty list
\*   "ok"           the well-formed success body of the endpoint
Endpoints == {"create", "delete", "token", "secretsGet", "secretsPost",
              "secretDel", "rulesGet", "rulesPut", "settingsGet",
              "authConfigPost", "auth", "users"}

BodiesOf(ep) ==
  ({"absent", "nonjson", "error", "ok"} \ (IF ep = "secretsPost" THEN {"nonjson"} ELSE {}))
  \cup (IF ep \in {"create", "delete", "token"} THEN {"successFalse"} ELSE {})
  \cup (IF ep \in {"token", "rulesGet", "settingsGet", "users"} THEN {"missing"} ELSE {})
  \cup (IF ep = "token" THEN {"missing2"} ELSE {})
  \cup (IF ep \in {"rulesPut", "auth", "users"} THEN {"statusFail"} ELSE {})
  \cup (IF ep = "settingsGet" THEN {"emptyConfig", "badConfig"} ELSE {})
  \cup (IF ep = "users" THEN {"emptyUsers"} ELSE {})

Responses(ep) ==
  {[err |-> TRUE, status |-> 0, body |-> "absent"]}
  \cup {[err |-> FALSE, status |-> 200, body |-> b] : b \in BodiesOf(ep)}
  \cup {[err |-> FALSE, status |-> 204, body |-> "absent"]}
  \cup {[err |-> FALSE, status |-> 404, body |-> b] : b \in {"absent", "nonjson", "error"}}

\* The remote carried the request out.  The answer to a DELETE of a secret
\* is a null body, which the client reads like an absent one.
ServerOk(ep, r) ==
  /\ ~r.err
  /\ IF ep = "secretDel"
       THEN r.status \in {200, 204} /\ r.body \in {"ok", "absent"}
     ELSE IF ep = "settingsGet"
       THEN r.status = 200 /\ r.body \in {"ok", "emptyConfig"}
     ELSE IF ep = "users"
       THEN r.status = 200 /\ r.body \in {"ok", "emptyUsers"}
     ELSE r.status = 200 /\ r.body = "ok"

\* An outcome is "resolve", "throw" (the callback threw: the deferred is
\* left unsettled) or the kind of error the deferred is rejected with.
ErrorKinds == {"TransportError", "HttpStatusError", "RemoteError",
               "CredentialOrServerError", "MissingTokenError",
               "RemoteStatusError", "MalformedResponseError",
               "DeletedInstanceError", "AlreadyDeletedError",
               "UnknownTokenError"}

\* body = JSON.parse(body) of account.js: throws on undefined and on non-JSON
JsonParseThrows(r) == r.body \in {"absent", "nonjson"}

\* account.js:98-112, the callback of createDatabase
CreateDatabaseOutcome(r) ==
  IF JsonParseThrows(r) THEN "throw"
  ELSE IF r.err THEN "TransportError"
  ELSE IF r.status # 200 THEN "HttpStatusError"
  ELSE IF r.body = "error" THEN "RemoteError"
  ELSE IF r.body = "successFalse" THEN "CredentialOrServerError"
  ELSE "resolve"

\* account.js:179-195, the callback of deleteDatabase
DeleteDatabaseOutcome(r) ==
  IF JsonParseThrows(r) THEN "throw"
  ELSE IF r.err THEN "TransportError"
  ELSE IF r.status # 200 THEN "HttpStatusError"
  ELSE IF r.body = "error" THEN "RemoteError"
  ELSE IF r.body = "successFalse" THEN "CredentialOrServerError"
  ELSE "resolve"

\* instance.js:40-58, the callback of the token request of the constructor
ReadyOutcome(r) ==
  IF r.err THEN "TransportError"
  ELSE IF r.status # 200 THEN "HttpStatusError"
  ELSE IF r.body = "absent" THEN "throw"
  ELSE IF r.body = "error" THEN "RemoteError"
  ELSE IF r.body = "successFalse" THEN "CredentialOrServerError"
  ELSE IF r.body \in {"missing", "nonjson"} THEN "MissingTokenError"
  ELSE IF r.body = "missing2" THEN "MissingTokenError"
  ELSE "resolve"

\* instance.js:107-118 and 152-166: getAuthTokens and addAuthToken
SecretsOutcome(r) ==
  IF r.err THEN "TransportError"
  ELSE IF r.status # 200 THEN "HttpStatusError"
  ELSE IF r.body = "absent" THEN "throw"
  ELSE IF r.body = "error" THEN "RemoteError"
  ELSE "resolve"

\* instance.js:211-222: the DELETE of removeAuthToken
SecretDelOutcome(r) ==
  IF r.err THEN "TransportError"
  ELSE IF r.status > 299 THEN "HttpStatusError"
  ELSE IF r.body = "error" THEN "RemoteError"
  ELSE "resolve"

\* instance.js:260-271: getRules (body.rules of an absent body throws)
GetRulesOutcome(r) ==
  IF r.err THEN "TransportError"
  ELSE IF r.status > 299 THEN "HttpStatusError"
  ELSE IF r.body = "error" THEN "RemoteError"
  ELSE IF r.body = "absent" THEN "throw"
  ELSE "resolve"

\* instance.js:318-330: setRules
SetRulesOutcome(r) ==
  IF r.err THEN "TransportError"
  ELSE IF r.status > 299 THEN "HttpStatusError"
  ELSE IF r.body = "error" THEN "RemoteError"
  ELSE IF r.body \in {"statusFail", "nonjson"} THEN "RemoteStatusError"
  ELSE "resolve"

\* instance.js:352-370: getAuthConfig (JSON.parse of a missing or bad
\* authConfig throws, and so does body.authConfig of an absent body)
GetAuthConfigOutcome(r) ==
  IF r.err THEN "TransportError"
  ELSE IF r.status > 299 THEN "HttpStatusError"
  ELSE IF r.body = "error" THEN "RemoteError"
  ELSE IF r.body \in {"absent", "missing", "nonjson", "badConfig"} THEN "throw"
  ELSE "resolve"

\* instance.js:388-399: setAuthConfig
SetAuthConfigOutcome(r) ==
  IF r.err THEN "TransportError"
  ELSE IF r.status > 299 THEN "HttpStatusError"
  ELSE IF r.body = "error" THEN "RemoteError"
  ELSE "resolve"

\* instance.js:406-426: _authMethodCallback (body.status of an absent body
\* throws)
AuthMethodOutcome(r) ==
  IF r.err THEN "TransportError"
  ELSE IF r.status > 299 THEN "HttpStatusError"
  ELSE IF r.body = "error" THEN "RemoteError"
  ELSE IF r.body = "absent" THEN "throw"
  ELSE IF r.body = "statusFail" THEN "RemoteStatusError"
  ELSE "resolve"

\* body.users of a users answer: a list of one user, the empty list, or
\* undefined (no such field)
UsersField(b) ==
  CASE b = "ok" -> "list"
    [] b = "emptyUsers" -> "empty"
    [] OTHER -> "undefined"

\* the users list as a sequence
UsersOf(b) == IF UsersField(b) = "list" THEN <<1>> ELSE <<>>

\* instance.js:527-535: listUsers, the handler after _authMethodCallback
\* (an array is truthy, also the empty one)
ListUsersOutcome(r) ==
  IF AuthMethodOutcome(r) # "resolve" THEN AuthMethodOutcome(r)
  ELSE IF UsersField(r.body) = "undefined" THEN "MalformedResponseError"
  ELSE "resolve"

\* ------------------------------------------------------------ the state
\* new FirebaseInstance(name, adminToken), instance.js:26-61.  origin says
\* which account method constructed it; tokenReq is the token request of the
\* constructor; ready is the state of the ready promise.
NewInstance(n, origin) ==
  [name |-> n, origin |-> origin, tokenReq |-> "inflight", ready |-> "pending",
   personalToken |-> FALSE, firebaseToken |-> FALSE, deleted |-> FALSE,
   cache |-> "none", authTokens |-> <<>>]

\* A public call and the promise it returned.  pc is where the call stands:
\* "http" (its request is in flight), "fetch" (removeAuthToken waits for the
\* secrets listing), "ready" (getDatabase waits for the ready promise),
\* "done" (no callback of the call is outstanding).  nreq counts the HTTP
\* requests the call has issued; served says that the remote carried out the
\* request whose callback was delivered last, and resp is what that callback
\* received.  For a request on the secret list, ans says whether the remote
\* has carried it out; its answer is then in list (GET) or val (POST).
NoResponse == [err |-> FALSE, status |-> 0, body |-> "absent"]

NewCall(op, n, obj, tok, doc) ==
  [op |-> op, name |-> n, obj |-> obj, tok |-> tok, doc |-> doc,
   pc |-> "http", state |-> "pending", err |-> "none",
   val |-> 0, list |-> <<>>, out |-> Undefined, nreq |-> 1, threw |-> FALSE,
   served |-> FALSE, resp |-> NoResponse, ans |-> "none"]

Rejected(call, e) == [call EXCEPT !.pc = "done", !.state = "rejected", !.err = e]
Resolved(call)    == [call EXCEPT !.pc = "done", !.state = "resolved"]
Threw(call)       == [call EXCEPT !.pc = "done", !.threw = TRUE]

\* What the callback of a request does to the promise of its call
Finish(call, outcome) ==
  IF outcome = "throw" THEN Threw(call)
  ELSE IF outcome = "resolve" THEN Resolved(call)
  ELSE Rejected(call, outcome)

\* seq without the element at position k
RemoveAt(seq, k) == SubSeq(seq, 1, k - 1) \o SubSeq(seq, k + 1, Len(seq))

\* A method returns: its call is in flight, or is over already
Return(call) ==
  /\ calls' = IF call.pc = "done" THEN calls ELSE Append(calls, call)
  /\ last' = call
  /\ ncalls' = ncalls + 1

\* A callback of call c returns and leaves the call as `call`
Continue(c, call) ==
  /\ calls' = IF call.pc = "done" THEN RemoveAt(calls, c) ELSE [calls EXCEPT ![c] = call]
  /\ last' = call
  /\ ncalls' = ncalls

\* The callback of a request to endpoint ep, answered with r, returns
Deliver(c, ep, r, call) ==
  Continue(c, [call EXCEPT !.served = ServerOk(ep, r), !.resp = r])

\* The remote has the database of Instance I, and I presents its personal token
RemoteHas(I) == I.name \in remoteDbs
RemoteAuthorizes(I) == I.name \in remoteDbs /\ I.personalToken

\* the URL with a slash at its end
toStringSlash(n) == "https://" \o n \o ".firebaseio.com" \o "/"

\* FirebaseInstance.prototype.toString, instance.js:69-71
toString(n) == "https://" \o n \o ".firebaseio.com"

CanCall == ncalls < MaxCalls

NoCall == NewCall("none", "", NoInst, 0, Undefined)

Init ==
  /\ dbs = [n \in Names |-> NoInst]
  /\ inst = <<>>
  /\ calls = <<>>
  /\ last = NoCall
  /\ ncalls = 0
  /\ held = {}
  /\ hist = [created |-> [n \in Names |-> NoInst],
             written |-> [n \in Names |-> Undefined],
             input |-> Undefined,
             removed |-> {}]
  /\ remoteDbs \in {{}, {"fb1"}}   \* the names are interchangeable
  /\ remoteSecrets = [n \in Names |-> <<0>>]
  /\ remoteRules = [n \in Names |-> Wrap("rules", Wrap(".read", Leaf("true")))]
  /\ nextToken = 1

remoteVars == <<remoteDbs, remoteSecrets, remoteRules, nextToken>>

\* ------------------------------------------------------------- account.js
\* createDatabase(name), account.js:88-97: the POST is sent
CreateDatabase(n) ==
  /\ CanCall
  /\ Return(NewCall("createDatabase", n, NoInst, 0, Undefined))
  /\ UNCHANGED <<dbs, inst, held, remoteVars>>
  /\ UNCHANGED hist

\* FirebaseAccount.bootstrapInstance(token), account.js:221-235: a new account
\* (the account of this model, before any other call) calls createDatabase
\* with a random name
BootstrapInstance(n) ==
  /\ ncalls = 0
  /\ CanCall
  /\ Return(NewCall("bootstrapInstance", n, NoInst, 0, Undefined))
  /\ UNCHANGED <<dbs, inst, held, remoteVars>>
  /\ UNCHANGED hist

\* account.js:98-112: the callback of that POST.  On success the Instance is
\* constructed (its token request goes out), registered and resolved with.
\* For bootstrapInstance the then-handler (account.js:226-232) gives the
\* Instance its tearDown method before the caller sees it (origin
\* "bootstrap").
CreateDatabaseCallback(c, r) ==
  LET call == calls[c]
      n == call.name
      outcome == CreateDatabaseOutcome(r)
      id == Len(inst) + 1
  IN
  /\ call.op \in {"createDatabase", "bootstrapInstance"} /\ call.pc = "http"
  /\ ServerOk("create", r) => n \notin remoteDbs
  /\ IF ServerOk("create", r)
       THEN /\ remoteDbs' = remoteDbs \cup {n}
            /\ remoteSecrets' = [remoteSecrets EXCEPT ![n] = <<0>>]
            /\ remoteRules' = [remoteRules EXCEPT
                                 ![n] = Wrap("rules", Wrap(".read", Leaf("true")))]
       ELSE UNCHANGED <<remoteDbs, remoteSecrets, remoteRules>>
  /\ IF outcome = "resolve"
       THEN /\ inst' = Append(inst, NewInstance(n,
                              IF call.op = "bootstrapInstance" THEN "bootstrap" ELSE "create"))
            /\ dbs' = [dbs EXCEPT ![n] = id]
            /\ held' = held \cup {id}
            /\ Deliver(c, "create", r, [Resolved(call) EXCEPT !.val = id, !.nreq = @ + 1])
       ELSE /\ Deliver(c, "create", r, Finish(call, outcome))
            /\ UNCHANGED <<dbs, inst, held>>
  /\ UNCHANGED nextToken
  /\ hist' = IF outcome = "resolve"
               THEN [hist EXCEPT !.created[n] = id]
               ELSE hist

\* getDatabase(name), account.js:138-153
GetDatabase(n) ==
  /\ CanCall
  /\ IF dbs[n] # NoInst
       THEN /\ Return([Resolved(NewCall("getDatabase", n, dbs[n], 0, Undefined))
                         EXCEPT !.val = dbs[n], !.nreq = 0])
            /\ held' = held \cup {dbs[n]}
            /\ UNCHANGED inst
       ELSE /\ inst' = Append(inst, NewInstance(n, "get"))
            /\ Return([NewCall("getDatabase", n, Len(inst) + 1, 0, Undefined)
                         EXCEPT !.pc = "ready"])
            /\ UNCHANGED held
  /\ UNCHANGED <<dbs, remoteVars>>
  /\ UNCHANGED hist

\* The getDatabase call that waits for the ready promise of Instance i
Waiting(i) ==
  {c \in DOMAIN calls :
     calls[c].op = "getDatabase" /\ calls[c].pc = "ready" /\ calls[c].obj = i}

\* The ready promise of Instance i, seen as a call of the constructor
ReadyPromise(i) ==
  [NewCall("new FirebaseInstance", inst[i].name, i, 0, Undefined) EXCEPT !.nreq = 0]

\* the handler of getDatabase, registering newDb however its ready promise ends
GetDatabaseThenAlways(i, outcome, r) ==
  IF Waiting(i) = {}
    THEN /\ calls' = calls
         /\ last' = [Finish(ReadyPromise(i), outcome) EXCEPT
                       !.served = ServerOk("token", r), !.resp = r]
         /\ UNCHANGED <<dbs, held, ncalls>>
    ELSE LET c == CHOOSE d \in Waiting(i) : TRUE
         IN  /\ dbs' = [dbs EXCEPT ![inst[i].name] = i]
             /\ IF outcome = "resolve"
                  THEN /\ held' = held \cup {i}
                       /\ Continue(c, [Resolved(calls[c]) EXCEPT
                                      !.val = i, !.served = ServerOk("token", r), !.resp = r])
                  ELSE /\ Continue(c, [Finish(calls[c], outcome) EXCEPT
                                      !.served = ServerOk("token", r), !.resp = r])
                       /\ UNCHANGED held

\* account.js:146-150: the handler getDatabase chained on newDb.ready runs when
\* the ready promise resolves; a rejection passes through to the caller
GetDatabaseThen(i, outcome, r) ==
  IF Waiting(i) = {}
    THEN /\ calls' = calls
         /\ last' = [Finish(ReadyPromise(i), outcome) EXCEPT
                       !.served = ServerOk("token", r), !.resp = r]
         /\ UNCHANGED <<dbs, held, ncalls>>
    ELSE LET c == CHOOSE d \in Waiting(i) : TRUE
         IN  IF outcome = "resolve"
               THEN /\ dbs' = [dbs EXCEPT ![inst[i].name] = i]
                    /\ held' = held \cup {i}
                    /\ Continue(c, [Resolved(calls[c]) EXCEPT
                                      !.val = i, !.served = ServerOk("token", r), !.resp = r])
               ELSE /\ Continue(c, [Finish(calls[c], outcome) EXCEPT
                                      !.served = ServerOk("token", r), !.resp = r])
                    /\ UNCHANGED <<dbs, held>>

\* instance.js:40-58: the callback of the token request of the constructor
InstanceReadyCallback(i, r) ==
  LET outcome == ReadyOutcome(r)
  IN
  /\ inst[i].tokenReq = "inflight"
  /\ ServerOk("token", r) => RemoteHas(inst[i])
  /\ inst' = [inst EXCEPT ![i] =
       IF outcome = "resolve"
         THEN [@ EXCEPT !.tokenReq = "delivered", !.ready = "resolved",
                        !.personalToken = TRUE, !.firebaseToken = TRUE]
       ELSE IF outcome = "throw"
         THEN [@ EXCEPT !.tokenReq = "delivered"]
       ELSE [@ EXCEPT !.tokenReq = "delivered", !.ready = "rejected"]]
  /\ GetDatabaseThen(i, outcome, r)
  /\ UNCHANGED remoteVars
  /\ UNCHANGED hist

\* deleteDatabase without the test of db.deleted
DeleteDatabaseUnchecked(i) ==
  /\ CanCall
  /\ i \in held
  /\ Return(NewCall("deleteDatabase", inst[i].name, i, 0, Undefined))
  /\ UNCHANGED <<dbs, inst, held, remoteVars>>
  /\ hist' = [hist EXCEPT !.created[inst[i].name] = NoInst]

\* deleteDatabase(db), account.js:162-178
DeleteDatabase(i) ==
  /\ CanCall
  /\ i \in held
  /\ IF inst[i].deleted
       THEN Return([Rejected(NewCall("deleteDatabase", inst[i].name, i, 0, Undefined),
                             "AlreadyDeletedError") EXCEPT !.nreq = 0])
       ELSE Return(NewCall("deleteDatabase", inst[i].name, i, 0, Undefined))
  /\ UNCHANGED <<dbs, inst, held, remoteVars>>
  /\ hist' = [hist EXCEPT !.created[inst[i].name] = NoInst]

\* the delete callback, clearing db.deleted whenever the delete failed
DeleteDatabaseCallbackRollback(c, r) ==
  LET call == calls[c]
      i == call.obj
      outcome == DeleteDatabaseOutcome(r)
  IN
  /\ call.op = "deleteDatabase" /\ call.pc = "http"
  /\ ServerOk("delete", r) => RemoteHas(inst[i])
  /\ remoteDbs' = IF ServerOk("delete", r) THEN remoteDbs \ {inst[i].name} ELSE remoteDbs
  /\ IF outcome = "resolve"
       THEN /\ inst' = [inst EXCEPT ![i].deleted = TRUE]
            /\ dbs' = [dbs EXCEPT ![inst[i].name] = NoInst]
       ELSE /\ inst' = [inst EXCEPT ![i].deleted = FALSE]
            /\ dbs' = dbs
  /\ Deliver(c, "delete", r, Finish(call, outcome))
  /\ UNCHANGED <<held, remoteSecrets, remoteRules, nextToken>>
  /\ UNCHANGED hist

\* the delete callback without delete this._dbs[db.name]
DeleteDatabaseCallbackKeepsEntry(c, r) ==
  LET call == calls[c]
      i == call.obj
      outcome == DeleteDatabaseOutcome(r)
  IN
  /\ call.op = "deleteDatabase" /\ call.pc = "http"
  /\ ServerOk("delete", r) => RemoteHas(inst[i])
  /\ remoteDbs' = IF ServerOk("delete", r) THEN remoteDbs \ {inst[i].name} ELSE remoteDbs
  /\ IF outcome = "resolve"
       THEN /\ inst' = [inst EXCEPT ![i].deleted = TRUE]
            /\ dbs' = dbs
       ELSE UNCHANGED <<dbs, inst>>
  /\ Deliver(c, "delete", r, Finish(call, outcome))
  /\ UNCHANGED <<held, remoteSecrets, remoteRules, nextToken>>
  /\ UNCHANGED hist

\* db.tearDown(), account.js:228-230
TearDown(i) ==
  /\ inst[i].origin = "bootstrap"
  /\ DeleteDatabase(i)

\* the delete callback without db.deleted = true
DeleteDatabaseCallbackNoFlag(c, r) ==
  LET call == calls[c]
      i == call.obj
      outcome == DeleteDatabaseOutcome(r)
  IN
  /\ call.op = "deleteDatabase" /\ call.pc = "http"
  /\ ServerOk("delete", r) => RemoteHas(inst[i])
  /\ remoteDbs' = IF ServerOk("delete", r) THEN remoteDbs \ {inst[i].name} ELSE remoteDbs
  /\ dbs' = IF outcome = "resolve" THEN [dbs EXCEPT ![inst[i].name] = NoInst] ELSE dbs
  /\ Deliver(c, "delete", r, Finish(call, outcome))
  /\ UNCHANGED <<inst, held, remoteSecrets, remoteRules, nextToken>>
  /\ UNCHANGED hist

\* the delete callback setting db.deleted before it looks at the answer
DeleteDatabaseCallbackMarksFirst(c, r) ==
  LET call == calls[c]
      i == call.obj
      outcome == DeleteDatabaseOutcome(r)
  IN
  /\ call.op = "deleteDatabase" /\ call.pc = "http"
  /\ ServerOk("delete", r) => RemoteHas(inst[i])
  /\ remoteDbs' = IF ServerOk("delete", r) THEN remoteDbs \ {inst[i].name} ELSE remoteDbs
  /\ inst' = [inst EXCEPT ![i].deleted = TRUE]
  /\ dbs' = IF outcome = "resolve" THEN [dbs EXCEPT ![inst[i].name] = NoInst] ELSE dbs
  /\ Deliver(c, "delete", r, Finish(call, outcome))
  /\ UNCHANGED <<held, remoteSecrets, remoteRules, nextToken>>
  /\ UNCHANGED hist

\* account.js:179-195: the callback of the delete POST
DeleteDatabaseCallback(c, r) ==
  LET call == calls[c]
      i == call.obj
      outcome == DeleteDatabaseOutcome(r)
  IN
  /\ call.op = "deleteDatabase" /\ call.pc = "http"
  /\ ServerOk("delete", r) => RemoteHas(inst[i])
  /\ remoteDbs' = IF ServerOk("delete", r) THEN remoteDbs \ {inst[i].name} ELSE remoteDbs
  /\ IF outcome = "resolve"
       THEN /\ inst' = [inst EXCEPT ![i].deleted = TRUE]
            /\ dbs' = [dbs EXCEPT ![inst[i].name] = NoInst]
       ELSE UNCHANGED <<dbs, inst>>
  /\ Deliver(c, "delete", r, Finish(call, outcome))
  /\ UNCHANGED <<held, remoteSecrets, remoteRules, nextToken>>
  /\ UNCHANGED hist

\* ------------------------------------------------------------ instance.js
\* The guard every method opens with where the source has it
\* (instance.js:88-92, 138-142, 188-192, 246-250, 297-301)
RejectDeleted(op, i, tok, doc) ==
  Return([Rejected(NewCall(op, inst[i].name, i, tok, doc), "DeletedInstanceError")
            EXCEPT !.nreq = 0])

\* instance.toString(), instance.js:69-71: returns at once, with a string,
\* whatever the state of the Instance
CallToString(i) ==
  /\ CanCall
  /\ i \in held
  /\ Return([NewCall("toString", inst[i].name, i, 0, Undefined) EXCEPT
               !.pc = "done", !.state = "returned", !.nreq = 0,
               !.out = Leaf(toString(inst[i].name))])
  /\ UNCHANGED <<dbs, inst, held, remoteVars>>
  /\ UNCHANGED hist

\* A method that sends one request and does nothing else before it returns
SendRequest(op, i) == Return(NewCall(op, inst[i].name, i, 0, Undefined))

\* instance.js:107-118: what the callback of the secrets GET does to the
\* cache: this.authTokens = body (an array, or whatever else the body is)
FetchedCache(I, r, list) ==
  IF r.body = "ok"
    THEN [I EXCEPT !.cache = "array", !.authTokens = list]
    ELSE [I EXCEPT !.cache = "other", !.authTokens = <<>>]

\* the secret list of the remote after DELETE .settings/secrets/<t>.json
RemoteWithout(seq, t) == SelectSeq(seq, LAMBDA x : x # t)

\* The remote carries out the request on the secret list that call c has in
\* flight: the GET is answered with the list as it is now, the POST appends
\* a new secret, the DELETE removes the secret named in the URL
SecretsServer(c) ==
  LET call == calls[c]
      n == call.name
  IN
  /\ call.op \in {"getAuthTokens", "addAuthToken", "removeAuthToken"}
  /\ call.pc \in {"http", "fetch"}
  /\ call.ans = "none"
  /\ RemoteAuthorizes(inst[call.obj])
  /\ IF call.op = "getAuthTokens" \/ call.pc = "fetch"
       THEN /\ calls' = [calls EXCEPT ![c].ans = "done", ![c].list = remoteSecrets[n]]
            /\ UNCHANGED <<remoteSecrets, nextToken>>
     ELSE IF call.op = "addAuthToken"
       THEN /\ calls' = [calls EXCEPT ![c].ans = "done", ![c].val = nextToken]
            /\ remoteSecrets' = [remoteSecrets EXCEPT ![n] = Append(@, nextToken)]
            /\ nextToken' = nextToken + 1
     ELSE /\ calls' = [calls EXCEPT ![c].ans = "done"]
          /\ remoteSecrets' = [remoteSecrets EXCEPT ![n] = RemoteWithout(@, call.tok)]
          /\ UNCHANGED nextToken
  /\ UNCHANGED <<dbs, inst, last, ncalls, held, hist, remoteDbs, remoteRules>>

\* getAuthTokens sending its GET whatever the cache holds
GetAuthTokensUncached(i) ==
  /\ CanCall
  /\ i \in held
  /\ IF inst[i].deleted
       THEN RejectDeleted("getAuthTokens", i, 0, Undefined)
       ELSE SendRequest("getAuthTokens", i)
  /\ UNCHANGED <<dbs, inst, held, remoteVars>>
  /\ UNCHANGED hist

\* getAuthTokens(), instance.js:86-122
GetAuthTokens(i) ==
  /\ CanCall
  /\ i \in held
  /\ IF inst[i].deleted
       THEN RejectDeleted("getAuthTokens", i, 0, Undefined)
     ELSE IF inst[i].cache # "none"
       THEN Return([Resolved(NewCall("getAuthTokens", inst[i].name, i, 0, Undefined))
                      EXCEPT !.list = inst[i].authTokens, !.nreq = 0])
     ELSE SendRequest("getAuthTokens", i)
  /\ UNCHANGED <<dbs, inst, held, remoteVars>>
  /\ UNCHANGED hist

GetAuthTokensCallback(c, r) ==
  LET call == calls[c]
      i == call.obj
      outcome == SecretsOutcome(r)
  IN
  /\ call.op = "getAuthTokens" /\ call.pc = "http"
  /\ ServerOk("secretsGet", r) => call.ans = "done"
  /\ IF outcome = "resolve"
       THEN /\ inst' = [inst EXCEPT ![i] = FetchedCache(@, r, call.list)]
            /\ Deliver(c, "secretsGet", r, [Resolved(call) EXCEPT
                              !.list = FetchedCache(inst[i], r, call.list).authTokens])
       ELSE /\ Deliver(c, "secretsGet", r, Finish(call, outcome))
            /\ UNCHANGED inst
  /\ UNCHANGED <<dbs, held, remoteVars>>
  /\ UNCHANGED hist

\* addAuthToken(), instance.js:136-151
AddAuthToken(i) ==
  /\ CanCall
  /\ i \in held
  /\ IF inst[i].deleted
       THEN RejectDeleted("addAuthToken", i, 0, Undefined)
       ELSE SendRequest("addAuthToken", i)
  /\ UNCHANGED <<dbs, inst, held, remoteVars>>
  /\ UNCHANGED hist

\* the new token replacing the cache instead of being pushed onto it
PushedCacheAlone(I, t) == [I EXCEPT !.cache = "array", !.authTokens = <<t>>]

\* instance.js:160-163: the cache after the new token is pushed
PushedCache(I, t) ==
  [I EXCEPT !.cache = "array",
            !.authTokens = Append(IF I.cache = "none" THEN <<>> ELSE I.authTokens, t)]

\* instance.js:152-166
AddAuthTokenCallback(c, r) ==
  LET call == calls[c]
      i == call.obj
      outcome == SecretsOutcome(r)
  IN
  /\ call.op = "addAuthToken" /\ call.pc = "http"
  /\ ServerOk("secretsPost", r) => call.ans = "done"
  /\ IF outcome = "resolve" /\ inst[i].cache = "other"
       THEN \* push is no function of a cache that is no array
            /\ Deliver(c, "secretsPost", r, Threw(call))
            /\ UNCHANGED inst
     ELSE IF outcome = "resolve"
       THEN /\ inst' = [inst EXCEPT ![i] = PushedCache(@, call.val)]
            /\ Deliver(c, "secretsPost", r, Resolved(call))
     ELSE /\ Deliver(c, "secretsPost", r, Finish(call, outcome))
          /\ UNCHANGED inst
  /\ UNCHANGED <<dbs, held, remoteVars>>
  /\ UNCHANGED hist

\* tokens.indexOf(token): 0 stands for JavaScript's -1, positions count from 1
IndexOf(seq, t) ==
  IF \E k \in DOMAIN seq : seq[k] = t
    THEN CHOOSE k \in DOMAIN seq : seq[k] = t /\ \A j \in 1 .. (k - 1) : seq[j] # t
    ELSE 0

\* instance.js:197: !Array.isArray(tokens) || tokens.indexOf(token) === -1
NoSuchToken(I, t) == I.cache # "array" \/ IndexOf(I.authTokens, t) = 0

\* the handler without the test of line 197
RemoveAuthTokenThenUntested(call, I, t) ==
  [call EXCEPT !.pc = "http", !.nreq = @ + 1, !.ans = "none"]

\* instance.js:195-210: the handler removeAuthToken chains on getAuthTokens();
\* I is the Instance as that handler finds it
RemoveAuthTokenThen(call, I, t) ==
  IF NoSuchToken(I, t)
    THEN Rejected(call, "UnknownTokenError")
    ELSE [call EXCEPT !.pc = "http", !.nreq = @ + 1, !.ans = "none"]

\* removeAuthToken(token), instance.js:186-228
RemoveAuthToken(i, t) ==
  /\ CanCall
  /\ i \in held
  /\ IF inst[i].deleted
       THEN RejectDeleted("removeAuthToken", i, t, Undefined)
     ELSE IF inst[i].cache # "none"
       THEN Return(RemoveAuthTokenThen(
              [NewCall("removeAuthToken", inst[i].name, i, t, Undefined)
                 EXCEPT !.nreq = 0], inst[i], t))
     ELSE Return([NewCall("removeAuthToken", inst[i].name, i, t, Undefined)
                    EXCEPT !.pc = "fetch"])
  /\ UNCHANGED <<dbs, inst, held, remoteVars>>
  /\ UNCHANGED hist

\* instance.js:107-118 for the getAuthTokens() inside removeAuthToken, then
\* instance.js:195-210
RemoveAuthTokenFetched(c, r) ==
  LET call == calls[c]
      i == call.obj
      outcome == SecretsOutcome(r)
      I == FetchedCache(inst[i], r, call.list)
  IN
  /\ call.op = "removeAuthToken" /\ call.pc = "fetch"
  /\ ServerOk("secretsGet", r) => call.ans = "done"
  /\ IF outcome = "resolve"
       THEN /\ inst' = [inst EXCEPT ![i] = I]
            /\ Deliver(c, "secretsGet", r, RemoveAuthTokenThen(call, I, call.tok))
       ELSE /\ Deliver(c, "secretsGet", r, Finish(call, outcome))
            /\ UNCHANGED inst
  /\ UNCHANGED <<dbs, held, remoteVars>>
  /\ UNCHANGED hist

\* instance.js:219: this.authTokens.splice(this.authTokens.indexOf(token), 1);
\* splice(-1, 1) removes the last element
Spliced(seq, t) ==
  IF IndexOf(seq, t) # 0 THEN RemoveAt(seq, IndexOf(seq, t))
  ELSE IF seq = <<>> THEN seq
  ELSE RemoveAt(seq, Len(seq))

\* instance.js:211-222
RemoveAuthTokenCallback(c, r) ==
  LET call == calls[c]
      i == call.obj
      outcome == SecretDelOutcome(r)
  IN
  /\ call.op = "removeAuthToken" /\ call.pc = "http"
  /\ ServerOk("secretDel", r) => call.ans = "done"
  /\ IF outcome = "resolve" /\ inst[i].cache # "array"
       THEN \* splice and indexOf are no functions of a cache that is no array
            /\ Deliver(c, "secretDel", r, Threw(call))
            /\ UNCHANGED inst
     ELSE IF outcome = "resolve"
       THEN /\ inst' = [inst EXCEPT ![i].authTokens = Spliced(@, call.tok)]
            /\ Deliver(c, "secretDel", r, Resolved(call))
     ELSE /\ Deliver(c, "secretDel", r, Finish(call, outcome))
          /\ UNCHANGED inst
  /\ UNCHANGED <<dbs, held, remoteVars>>
  /\ hist' = IF outcome = "resolve" /\ inst[i].cache = "array" /\ ServerOk("secretDel", r)
               THEN [hist EXCEPT !.removed = @ \cup {<<i, call.tok>>}]
               ELSE hist

\* getRules(), instance.js:244-259
GetRules(i) ==
  /\ CanCall
  /\ i \in held
  /\ IF inst[i].deleted
       THEN RejectDeleted("getRules", i, 0, Undefined)
       ELSE SendRequest("getRules", i)
  /\ UNCHANGED <<dbs, inst, held, remoteVars>>
  /\ UNCHANGED hist

\* getRules resolving with the whole body
NotUnwrapped(body) == body

\* instance.js:268: body = body.rules
Unwrapped(body) == Member(body, "rules")

\* instance.js:260-271
GetRulesCallback(c, r) ==
  LET call == calls[c]
      n == inst[call.obj].name
      outcome == GetRulesOutcome(r)
  IN
  /\ call.op = "getRules" /\ call.pc = "http"
  /\ ServerOk("rulesGet", r) => RemoteAuthorizes(inst[call.obj])
  /\ IF outcome = "resolve"
       THEN Deliver(c, "rulesGet", r, [Resolved(call) EXCEPT
              !.out = IF r.body = "ok" THEN Unwrapped(remoteRules[n]) ELSE Undefined])
       ELSE Deliver(c, "rulesGet", r, Finish(call, outcome))
  /\ UNCHANGED <<dbs, inst, held, remoteVars>>
  /\ UNCHANGED hist

\* instance.js:303-307: the document setRules sends
Normalized(newRules) ==
  IF ~(Truthy(Member(newRules, "rules")) /\ Cardinality(ObjectKeys(newRules)) = 1)
    THEN Wrap("rules", newRules)
    ELSE newRules

\* setRules(newRules), instance.js:295-317.  newRules.rules of null throws
\* before a promise is returned.
SetRules(i, newRules) ==
  /\ CanCall
  /\ i \in held
  /\ IF inst[i].deleted
       THEN RejectDeleted("setRules", i, 0, newRules)
     ELSE IF ThrowsOnRead(newRules)
       THEN Return([Threw(NewCall("setRules", inst[i].name, i, 0, newRules))
                      EXCEPT !.nreq = 0])
     ELSE Return([NewCall("setRules", inst[i].name, i, 0, newRules)
                    EXCEPT !.out = Normalized(newRules)])
  /\ UNCHANGED <<dbs, inst, held, remoteVars>>
  /\ UNCHANGED hist

\* the setRules callback without the test of body.status
SetRulesCallbackNoBodyTest(c, r) ==
  LET call == calls[c]
      n == inst[call.obj].name
  IN
  /\ call.op = "setRules" /\ call.pc = "http"
  /\ ServerOk("rulesPut", r) => RemoteAuthorizes(inst[call.obj])
  /\ remoteRules' = IF ServerOk("rulesPut", r) THEN [remoteRules EXCEPT ![n] = call.out]
                                   ELSE remoteRules
  /\ Deliver(c, "rulesPut", r, Finish(call, SecretDelOutcome(r)))
  /\ UNCHANGED <<dbs, inst, held, remoteDbs, remoteSecrets, nextToken>>
  /\ hist' = IF ServerOk("rulesPut", r) /\ SetRulesOutcome(r) = "resolve"
               THEN [hist EXCEPT !.written[n] = call.doc]
               ELSE hist

\* instance.js:318-330
SetRulesCallback(c, r) ==
  LET call == calls[c]
      n == inst[call.obj].name
  IN
  /\ call.op = "setRules" /\ call.pc = "http"
  /\ ServerOk("rulesPut", r) => RemoteAuthorizes(inst[call.obj])
  /\ remoteRules' = IF ServerOk("rulesPut", r) THEN [remoteRules EXCEPT ![n] = call.out]
                                   ELSE remoteRules
  /\ Deliver(c, "rulesPut", r, Finish(call, SetRulesOutcome(r)))
  /\ UNCHANGED <<dbs, inst, held, remoteDbs, remoteSecrets, nextToken>>
  /\ hist' = IF ServerOk("rulesPut", r) /\ SetRulesOutcome(r) = "resolve"
               THEN [hist EXCEPT !.written[n] = call.doc]
               ELSE hist

\* getAuthConfig(), instance.js:342-351
GetAuthConfig(i) ==
  /\ CanCall
  /\ i \in held
  /\ SendRequest("getAuthConfig", i)
  /\ UNCHANGED <<dbs, inst, held, remoteVars>>
  /\ UNCHANGED hist

\* body.authConfig of a settings document: the text of a JSON object, the
\* empty string, a text that is no JSON, or undefined (no such field)
AuthConfigText(b) ==
  CASE b = "ok" -> "{}"
    [] b = "emptyConfig" -> ""
    [] b = "badConfig" -> "{"
    [] OTHER -> "undefined"

\* JSON.parse(text) where it returns; it throws on every other text
JsonParse(text) == IF text = "{}" THEN Leaf("{}") ELSE Undefined

\* instance.js:352-370
GetAuthConfigCallback(c, r) ==
  LET call == calls[c]
      outcome == GetAuthConfigOutcome(r)
  IN
  /\ call.op = "getAuthConfig" /\ call.pc = "http"
  /\ ServerOk("settingsGet", r) => RemoteAuthorizes(inst[call.obj])
  /\ IF outcome = "resolve"
       THEN Deliver(c, "settingsGet", r, [Resolved(call) EXCEPT
              !.out = IF AuthConfigText(r.body) = "" THEN Leaf("null")
                      ELSE JsonParse(AuthConfigText(r.body))])
       ELSE Deliver(c, "settingsGet", r, Finish(call, outcome))
  /\ UNCHANGED <<dbs, inst, held, remoteVars>>
  /\ UNCHANGED hist

\* setAuthConfig(config), instance.js:376-387
SetAuthConfig(i) ==
  /\ CanCall
  /\ i \in held
  /\ SendRequest("setAuthConfig", i)
  /\ UNCHANGED <<dbs, inst, held, remoteVars>>
  /\ UNCHANGED hist

\* instance.js:388-399
SetAuthConfigCallback(c, r) ==
  /\ calls[c].op = "setAuthConfig" /\ calls[c].pc = "http"
  /\ ServerOk("authConfigPost", r) => RemoteHas(inst[calls[c].obj])
  /\ Deliver(c, "authConfigPost", r, Finish(calls[c], SetAuthConfigOutcome(r)))
  /\ UNCHANGED <<dbs, inst, held, remoteVars>>
  /\ UNCHANGED hist

\* createUser(email, password), instance.js:436-454
CreateUser(i) ==
  /\ CanCall
  /\ i \in held
  /\ SendRequest("createUser", i)
  /\ UNCHANGED <<dbs, inst, held, remoteVars>>
  /\ UNCHANGED hist

\* removeUser(email), instance.js:464-478
RemoveUser(i) ==
  /\ CanCall
  /\ i \in held
  /\ SendRequest("removeUser", i)
  /\ UNCHANGED <<dbs, inst, held, remoteVars>>
  /\ UNCHANGED hist

\* changeUserPassword(email, newPassword), instance.js:489-506
ChangeUserPassword(i) ==
  /\ CanCall
  /\ i \in held
  /\ SendRequest("changeUserPassword", i)
  /\ UNCHANGED <<dbs, inst, held, remoteVars>>
  /\ UNCHANGED hist

\* sendResetEmail(email), instance.js:546-563
SendResetEmail(i) ==
  /\ CanCall
  /\ i \in held
  /\ SendRequest("sendResetEmail", i)
  /\ UNCHANGED <<dbs, inst, held, remoteVars>>
  /\ UNCHANGED hist

AuthMethods == {"createUser", "removeUser", "changeUserPassword", "sendResetEmail"}

\* instance.js:406-426: _authMethodCallback bound to the deferred of the call
AuthMethodCallback(c, r) ==
  /\ calls[c].op \in AuthMethods /\ calls[c].pc = "http"
  /\ ServerOk("auth", r) => RemoteHas(inst[calls[c].obj])
  /\ Deliver(c, "auth", r, Finish(calls[c], AuthMethodOutcome(r)))
  /\ UNCHANGED <<dbs, inst, held, remoteVars>>
  /\ UNCHANGED hist

\* listUsers(), instance.js:514-526
ListUsers(i) ==
  /\ CanCall
  /\ i \in held
  /\ SendRequest("listUsers", i)
  /\ UNCHANGED <<dbs, inst, held, remoteVars>>
  /\ UNCHANGED hist

\* instance.js:525-535: _authMethodCallback, then the handler that takes
\* body.users
ListUsersCallback(c, r) ==
  /\ calls[c].op = "listUsers" /\ calls[c].pc = "http"
  /\ ServerOk("users", r) => RemoteHas(inst[calls[c].obj])
  /\ Deliver(c, "users", r,
             IF ListUsersOutcome(r) = "resolve"
               THEN [Resolved(calls[c]) EXCEPT !.list = UsersOf(r.body)]
               ELSE Finish(calls[c], ListUsersOutcome(r)))
  /\ UNCHANGED <<dbs, inst, held, remoteVars>>
  /\ UNCHANGED hist

\* Rules documents a caller passes to setRules: a bare rules map, a wrapped
\* one, a bare map of a rule for the path /rules/rules, and null
SomeRules ==
  {Wrap(".read", Leaf("true")),
   Wrap("rules", Wrap(".read", Leaf("true"))),
   Wrap("rules", Wrap("rules", Leaf("false"))),
   Leaf("null")}

\* What a caller can pass to removeAuthToken: a secret the remote has handed
\* out, or a string that is no secret
Tokens == {NoSecret} \cup (0 .. (nextToken - 1))

AccountNext ==
  \/ \E n \in Names : CreateDatabase(n)
  \/ \E c \in DOMAIN calls : \E r \in Responses("create") : CreateDatabaseCallback(c, r)
  \/ \E n \in Names : GetDatabase(n)
  \/ \E i \in DOMAIN inst : \E r \in Responses("token") : InstanceReadyCallback(i, r)
  \/ \E i \in DOMAIN inst : DeleteDatabase(i)
  \/ \E c \in DOMAIN calls : \E r \in Responses("delete") : DeleteDatabaseCallback(c, r)

TokenNext ==
  \/ \E i \in DOMAIN inst : GetAuthTokens(i)
  \/ \E c \in DOMAIN calls : \E r \in Responses("secretsGet") : GetAuthTokensCallback(c, r)
  \/ \E i \in DOMAIN inst : AddAuthToken(i)
  \/ \E c \in DOMAIN calls : \E r \in Responses("secretsPost") : AddAuthTokenCallback(c, r)
  \/ \E i \in DOMAIN inst : \E t \in Tokens : RemoveAuthToken(i, t)
  \/ \E c \in DOMAIN calls : \E r \in Responses("secretsGet") : RemoveAuthTokenFetched(c, r)
  \/ \E c \in DOMAIN calls : \E r \in Responses("secretDel") : RemoveAuthTokenCallback(c, r)
  \/ \E c \in DOMAIN calls : SecretsServer(c)

RulesCallbacks ==
  \/ \E c \in DOMAIN calls : \E r \in Responses("rulesGet") : GetRulesCallback(c, r)
  \/ \E c \in DOMAIN calls : \E r \in Responses("rulesPut") : SetRulesCallback(c, r)

SettingsNext ==
  \/ \E i \in DOMAIN inst : GetAuthConfig(i)
  \/ \E c \in DOMAIN calls : \E r \in Responses("settingsGet") : GetAuthConfigCallback(c, r)
  \/ \E i \in DOMAIN inst : SetAuthConfig(i)
  \/ \E c \in DOMAIN calls : \E r \in Responses("authConfigPost") : SetAuthConfigCallback(c, r)

UsersNext ==
  \/ \E i \in DOMAIN inst : CreateUser(i)
  \/ \E i \in DOMAIN inst : RemoveUser(i)
  \/ \E i \in DOMAIN inst : ChangeUserPassword(i)
  \/ \E i \in DOMAIN inst : SendResetEmail(i)
  \/ \E c \in DOMAIN calls : \E r \in Responses("auth") : AuthMethodCallback(c, r)
  \/ \E i \in DOMAIN inst : ListUsers(i)
  \/ \E c \in DOMAIN calls : \E r \in Responses("users") : ListUsersCallback(c, r)

Next ==
  \/ AccountNext
  \/ TokenNext
  \/ \E i \in DOMAIN inst : GetRules(i)
  \/ \E i \in DOMAIN inst : \E d \in SomeRules : SetRules(i, d)
  \/ RulesCallbacks
  \/ SettingsNext
  \/ UsersNext

Spec == Init /\ [][Next]_vars

\* The account alone
SpecAccount == Init /\ [][AccountNext]_vars

\* The state after createDatabase("fb1") has resolved and the readiness
\* exchange of the new Instance has succeeded; calls are counted from here.
LiveInstance ==
  [NewInstance("fb1", "create") EXCEPT
     !.tokenReq = "delivered", !.ready = "resolved",
     !.personalToken = TRUE, !.firebaseToken = TRUE]

InitLive ==
  /\ dbs = [n \in Names |-> IF n = "fb1" THEN 1 ELSE NoInst]
  /\ inst = <<LiveInstance>>
  /\ calls = <<>>
  /\ last = NoCall
  /\ ncalls = 0
  /\ held = {1}
  /\ hist = [created |-> [n \in Names |-> IF n = "fb1" THEN 1 ELSE NoInst],
             written |-> [n \in Names |-> Undefined],
             input |-> Undefined,
             removed |-> {}]
  /\ remoteDbs = {"fb1"}
  /\ remoteSecrets = [n \in Names |-> <<0>>]
  /\ remoteRules = [n \in Names |-> Wrap("rules", Wrap(".read", Leaf("true")))]
  /\ nextToken = 1

\* The token methods of one live Instance, calls overlapping freely
SpecTokens == InitLive /\ [][TokenNext]_vars

\* The token methods of one live Instance, each call awaited before the next
AwaitedTokenNext == TokenNext /\ (ncalls' = ncalls + 1 => calls = <<>>)

SpecTokensAwaited == InitLive /\ [][AwaitedTokenNext]_vars

\* setRules and getRules of one live Instance, each call awaited before the
\* next; the caller passes the document hist.input to setRules
InitRules ==
  /\ dbs = [n \in Names |-> IF n = "fb1" THEN 1 ELSE NoInst]
  /\ inst = <<LiveInstance>>
  /\ calls = <<>>
  /\ last = NoCall
  /\ ncalls = 0
  /\ held = {1}
  /\ hist \in [created : {[n \in Names |-> IF n = "fb1" THEN 1 ELSE NoInst]},
               written : {[n \in Names |-> Undefined]},
               input : RuleDocs \cup SomeRules,
               removed : {{}}]
  /\ remoteDbs = {"fb1"}
  /\ remoteSecrets = [n \in Names |-> <<0>>]
  /\ remoteRules = [n \in Names |-> Wrap("rules", Wrap(".read", Leaf("true")))]
  /\ nextToken = 1

RulesNext ==
  \/ \E i \in DOMAIN inst : calls = <<>> /\ GetRules(i)
  \/ \E i \in DOMAIN inst : calls = <<>> /\ SetRules(i, hist.input)
  \/ RulesCallbacks

SpecRules == InitRules /\ [][RulesNext]_vars

\* One run of bootstrapInstance and the tearDown calls on its Instance
BootstrapNext ==
  \/ \E n \in Names : BootstrapInstance(n)
  \/ \E c \in DOMAIN calls : \E r \in Responses("create") : CreateDatabaseCallback(c, r)
  \/ \E i \in DOMAIN inst : \E r \in Responses("token") : InstanceReadyCallback(i, r)
  \/ \E i \in DOMAIN inst : TearDown(i)
  \/ \E c \in DOMAIN calls : \E r \in Responses("delete") : DeleteDatabaseCallback(c, r)

SpecBootstrap == Init /\ [][BootstrapNext]_vars

\* Instances from createDatabase to deleteDatabase, and toString() of the
\* Instances the caller holds
ToStringNext ==
  \/ \E n \in Names : CreateDatabase(n)
  \/ \E c \in DOMAIN calls : \E r \in Responses("create") : CreateDatabaseCallback(c, r)
  \/ \E i \in DOMAIN inst : \E r \in Responses("token") : InstanceReadyCallback(i, r)
  \/ \E i \in DOMAIN inst : DeleteDatabase(i)
  \/ \E c \in DOMAIN calls : \E r \in Responses("delete") : DeleteDatabaseCallback(c, r)
  \/ \E i \in DOMAIN inst : CallToString(i)

SpecToString == Init /\ [][ToStringNext]_vars

\* The user methods of one live Instance
SpecUsers == InitLive /\ [][UsersNext]_vars

\* getAuthConfig and setAuthConfig of one live Instance
SpecSettings == InitLive /\ [][SettingsNext]_vars

\* As SpecRules, and the caller also passes {rules: hist.input} to setRules
WrapNext ==
  \/ RulesNext
  \/ \E i \in DOMAIN inst : calls = <<>> /\ SetRules(i, Wrap("rules", hist.input))

SpecWrap == InitRules /\ [][WrapNext]_vars

\* ============================================================ the claims
InstanceMethods ==
  {"getAuthTokens", "addAuthToken", "removeAuthToken", "getRules", "setRules",
   "getAuthConfig", "setAuthConfig", "createUser", "removeUser",
   "changeUserPassword", "listUsers", "sendResetEmail"}

\* A method was called in this step
Called == ncalls' = ncalls + 1

\* Instance i has completed its readiness exchange
Ready(i) ==
  inst[i].ready = "resolved" /\ inst[i].personalToken /\ inst[i].firebaseToken

\* C1 (as claimed): every Instance method called on an Instance whose deleted
\* flag is true rejects with the deleted-instance error and issues no HTTP
\* request.
C1_DeletedInstanceRejects ==
  [][(Called /\ last'.op \in InstanceMethods /\ inst[last'.obj].deleted)
       => (last'.state = "rejected" /\ last'.err = "DeletedInstanceError"
           /\ last'.nreq = 0)]_vars

\* C2: deleteDatabase(db) on an Instance whose deleted flag is already true
\* rejects with the already-deleted error, issues no HTTP request and changes
\* neither the registry, nor any Instance, nor the remote.
C2_AlreadyDeletedRejects ==
  [][(Called /\ last'.op = "deleteDatabase" /\ inst[last'.obj].deleted)
       => (/\ last'.state = "rejected"
           /\ last'.err = "AlreadyDeletedError"
           /\ last'.nreq = 0
           /\ calls' = calls
           /\ dbs' = dbs
           /\ inst' = inst
           /\ remoteDbs' = remoteDbs)]_vars

C2_Witness ==
  /\ last.op = "deleteDatabase"
  /\ last.err = "AlreadyDeletedError"
  /\ inst[last.obj].deleted

\* C3: once the deleted flag of an Instance is true, it is true in every
\* later state, whatever account and instance operations run.
C3_DeletedNeverReverts ==
  [][\A i \in DOMAIN inst : inst[i].deleted => inst'[i].deleted]_vars

\* a method of a deleted Instance was called and has run to its end
C3_Witness ==
  /\ last.op \in InstanceMethods
  /\ inst[last.obj].deleted
  /\ last.pc = "done"

\* C4 (as claimed): after createDatabase(name) has resolved with Instance I
\* and no deleteDatabase of that database has been called since,
\* getDatabase(name) resolves at once with I and issues no HTTP request.
C4_GetAfterCreateIsSame ==
  [][(Called /\ last'.op = "getDatabase" /\ hist.created[last'.name] # NoInst)
       => (/\ last'.state = "resolved"
           /\ last'.val = hist.created[last'.name]
           /\ last'.nreq = 0)]_vars

\* C5: the registry never holds an Instance whose deleted flag is true; the
\* step in which deleteDatabase(db) resolves sets db.deleted and leaves no
\* registry entry under db.name, and getDatabase never resolves with an
\* Instance whose deleted flag is true.
C5_NoDeletedInRegistry ==
  /\ \A n \in Names : dbs[n] # NoInst => ~inst[dbs[n]].deleted
  /\ (last.op = "deleteDatabase" /\ last.state = "resolved")
       => (inst[last.obj].deleted /\ dbs[last.name] = NoInst)
  /\ (last.op = "getDatabase" /\ last.state = "resolved")
       => ~inst[last.val].deleted

\* getDatabase(db.name) was called after deleteDatabase(db) had succeeded
C5_Witness ==
  /\ last.op = "getDatabase"
  /\ last.nreq = 1
  /\ \E i \in DOMAIN inst :
       inst[i].deleted /\ inst[i].name = last.name /\ last.obj # i

\* C6 (as claimed): every Instance in the registry, and every Instance a
\* getDatabase promise resolved with, has completed its readiness exchange.
C6_RegisteredIsReady ==
  /\ \A n \in Names : dbs[n] # NoInst => Ready(dbs[n])
  /\ (last.op = "getDatabase" /\ last.state = "resolved") => Ready(last.val)

\* C6 (amended): every Instance that getDatabase constructed is in the
\* registry, and is resolved with, only once its readiness exchange has
\* succeeded.  (An Instance that createDatabase constructed is registered
\* and resolved with at construction.)
C6_GetRegistersReady ==
  /\ \A n \in Names :
       (dbs[n] # NoInst /\ inst[dbs[n]].origin = "get") => Ready(dbs[n])
  /\ (last.op = "getDatabase" /\ last.state = "resolved"
        /\ inst[last.val].origin = "get") => Ready(last.val)

C6_Witness ==
  /\ last.op = "getDatabase"
  /\ last.state = "resolved"
  /\ last.nreq = 1
  /\ dbs[last.name] = last.val
  /\ \E i \in DOMAIN inst : inst[i].origin = "get" /\ inst[i].ready = "rejected"

\* C7 (as claimed): with this client the only writer of the remote secret
\* list and its getAuthTokens, addAuthToken and removeAuthToken calls awaited
\* one after the other, a populated authTokens cache holds exactly the
\* secrets of the remote list.
C7_CacheMirrorsRemote ==
  \A i \in DOMAIN inst :
    (inst[i].cache = "array" /\ calls = <<>>)
      => inst[i].authTokens = remoteSecrets[inst[i].name]

\* C8 (as claimed): the step in which removeAuthToken(t) resolves, the remote
\* having deleted t, takes nothing but t out of the cache: every other cached
\* token stays in place, also when calls overlap.
C8_RemoveSplicesExactly ==
  [][(/\ ncalls' = ncalls
      /\ Len(calls') < Len(calls)
      /\ last'.op = "removeAuthToken"
      /\ last'.state = "resolved"
      /\ last'.served)
       => RemoteWithout(inst'[last'.obj].authTokens, last'.tok)
            = RemoteWithout(inst[last'.obj].authTokens, last'.tok)]_vars

\* C9 (as claimed): once the callback of the last HTTP request of a public
\* call has been delivered, the promise of the call is settled.
C9_DeliveredIsSettled ==
  (last.op # "none" /\ last.pc = "done" /\ last.nreq > 0)
    => last.state \in {"resolved", "rejected"}

\* What getRules resolves with after the remote has accepted setRules(r)
RoundTrip(r) ==
  IF Truthy(Member(r, "rules")) /\ ObjectKeys(r) = {"rules"}
    THEN Member(r, "rules")
    ELSE r

\* A getRules call has resolved with the answer of the remote, after the
\* remote accepted a setRules call
GotRulesBack ==
  /\ last.op = "getRules"
  /\ last.state = "resolved"
  /\ last.served
  /\ hist.written[last.name] # Undefined

\* C10 (as claimed): setRules(r) followed by getRules() resolves to r.
C10_RulesRoundTrip ==
  GotRulesBack => last.out = hist.written[last.name]

\* C10 (amended): setRules(r) followed by getRules() resolves to r, except
\* that for an object r whose only key is rules, with a truthy value, it
\* resolves to r.rules.
C10_RulesRoundTripUnlessWrapped ==
  GotRulesBack => last.out = RoundTrip(hist.written[last.name])

\* getRules has answered after the remote accepted setRules({rules: {".read": true}})
C10_Witness ==
  /\ GotRulesBack
  /\ hist.written[last.name] = Wrap("rules", Wrap(".read", Leaf("true")))
  /\ last.out = Wrap(".read", Leaf("true"))

\* C11 (as claimed): for every rules value X, setRules(X) and
\* setRules({rules: X}) send the same request body, X wrapped under the rules
\* key exactly once.
C11_WrappedExactlyOnce ==
  (/\ last.op = "setRules"
   /\ last.nreq = 1
   /\ last.doc \in {hist.input, Wrap("rules", hist.input)})
    => last.out = Wrap("rules", hist.input)

\* The response passed the tests of transport, status and error field that
\* the callbacks of instance.js open with
Successful(r) == ~r.err /\ r.status <= 299 /\ r.body # "error"

\* C12 (as claimed): for a successful response, getAuthConfig resolves; it
\* resolves to null exactly when the authConfig field is the empty string,
\* and otherwise to the object the field parses to.
C12_AuthConfigParsed ==
  (/\ last.op = "getAuthConfig"
   /\ last.pc = "done"
   /\ Successful(last.resp))
    => /\ last.state = "resolved"
       /\ last.out = Leaf("null") <=> AuthConfigText(last.resp.body) = ""
       /\ AuthConfigText(last.resp.body) # ""
            => last.out = JsonParse(AuthConfigText(last.resp.body))

\* C13 (as claimed): once a removeAuthToken(t) has resolved, a further
\* removeAuthToken(t) on the same Instance rejects with the unknown-token
\* error and sends no request (the remote never hands t out again).
C13_RemovedStaysUnknown ==
  [][(/\ Called
      /\ last'.op = "removeAuthToken"
      /\ <<last'.obj, last'.tok>> \in hist.removed)
       => (/\ last'.state = "rejected"
           /\ last'.err = "UnknownTokenError"
           /\ last'.nreq = 0)]_vars

\* C14: getAuthTokens on a live Instance with a populated cache resolves with
\* the cached list, sends nothing and leaves the cache alone; with no cache
\* it sends one GET, and when the remote answers with its list the callback
\* stores that list as the cache and resolves with it.
C14_GetAuthTokensCached ==
  [][/\ (/\ Called
         /\ last'.op = "getAuthTokens"
         /\ ~inst[last'.obj].deleted
         /\ inst[last'.obj].cache # "none")
          => (/\ last'.state = "resolved"
              /\ last'.list = inst[last'.obj].authTokens
              /\ last'.nreq = 0
              /\ inst' = inst)
     /\ (/\ Called
         /\ last'.op = "getAuthTokens"
         /\ ~inst[last'.obj].deleted
         /\ inst[last'.obj].cache = "none")
          => (/\ last'.state = "pending"
              /\ last'.pc = "http"
              /\ last'.nreq = 1
              /\ inst' = inst)
     /\ \A c \in DOMAIN calls :
          (/\ calls[c].op = "getAuthTokens"
           /\ calls' = RemoveAt(calls, c)
           /\ last'.op = "getAuthTokens"
           /\ last'.served)
            => (/\ last'.state = "resolved"
                /\ last'.nreq = 1
                /\ last'.list = calls[c].list
                /\ inst'[last'.obj].cache = "array"
                /\ inst'[last'.obj].authTokens = calls[c].list)]_vars

\* getAuthTokens has answered from a cache of two tokens
C14_Witness ==
  /\ last.op = "getAuthTokens"
  /\ last.state = "resolved"
  /\ last.nreq = 0
  /\ Len(last.list) = 2

\* C15: the callback of an addAuthToken that resolves appends the token the
\* remote returned to the end of the cache (to an empty cache when there was
\* none), changes nothing else and resolves with that token; the callback of
\* an addAuthToken that does not resolve leaves the cache as it was.
C15_AddAppends ==
  [][\A c \in DOMAIN calls :
       (/\ calls[c].op = "addAuthToken"
        /\ calls' = RemoveAt(calls, c)
        /\ last'.op = "addAuthToken"
        /\ last'.obj = calls[c].obj)
         => IF last'.state = "resolved"
              THEN LET i == last'.obj
                       before == IF inst[i].cache = "none"
                                   THEN <<>> ELSE inst[i].authTokens
                   IN  /\ calls[c].ans = "done"
                       /\ last'.val = calls[c].val
                       /\ inst' = [inst EXCEPT
                                     ![i].cache = "array",
                                     ![i].authTokens = Append(before, last'.val)]
              ELSE inst' = inst]_vars

\* addAuthToken has resolved with a token pushed behind an earlier one
C15_Witness ==
  /\ last.op = "addAuthToken"
  /\ last.state = "resolved"
  /\ Len(inst[last.obj].authTokens) = 2
  /\ inst[last.obj].authTokens[2] = last.val

AccountMethods == {"createDatabase", "getDatabase", "deleteDatabase"}

\* The deleted flag of every Instance that exists before the step is as it was
FlagsKept == \A i \in DOMAIN inst : inst'[i].deleted = inst[i].deleted

\* C16: no step of a createDatabase, getDatabase or deleteDatabase call that
\* ends rejected changes the registry or a deleted flag (neither the call
\* nor the callback that rejects it); and when the readiness exchange of the
\* Instance that getDatabase constructed fails, getDatabase rejects with the
\* error of that exchange.
C16_RejectionChangesNothing ==
  [][/\ (Called /\ last'.op \in AccountMethods)
          => (dbs' = dbs /\ FlagsKept)
     /\ (/\ ~Called
         /\ last' # last
         /\ last'.op \in AccountMethods
         /\ last'.state = "rejected")
          => (dbs' = dbs /\ FlagsKept)
     /\ \A c \in DOMAIN calls :
          (/\ calls[c].op = "getDatabase"
           /\ calls' = RemoveAt(calls, c)
           /\ inst[calls[c].obj].ready = "pending"
           /\ inst'[calls[c].obj].ready = "rejected")
            => (/\ last'.op = "getDatabase"
                /\ last'.state = "rejected"
                /\ last'.err = ReadyOutcome(last'.resp)
                /\ last'.err \in ErrorKinds)]_vars

\* getDatabase of a database the remote does not have has been rejected,
\* while the registry holds an Instance under another name
C16_Witness ==
  /\ last.op = "getDatabase"
  /\ last.state = "rejected"
  /\ last.name \notin remoteDbs
  /\ \E n \in Names : dbs[n] # NoInst

\* C17 (as claimed): for a response that passes the tests of transport,
\* status, error field and status field, listUsers resolves with the users
\* list when the body carries a users field (also an empty list) and rejects
\* with the malformed-response error when it carries none.
C17_ListUsers ==
  (/\ last.op = "listUsers"
   /\ last.pc = "done"
   /\ Successful(last.resp)
   /\ last.resp.body # "statusFail")
    => IF UsersField(last.resp.body) # "undefined"
         THEN last.state = "resolved" /\ last.list = UsersOf(last.resp.body)
         ELSE last.state = "rejected" /\ last.err = "MalformedResponseError"

\* C18: tearDown() of the Instance bootstrapInstance resolved with is a
\* deleteDatabase of that Instance on the account that created it; the
\* callback that receives the success answer of the remote sets the deleted
\* flag and resolves; every tearDown() called once the flag is set rejects
\* with the already-deleted error and sends nothing.
C18_TearDown ==
  [][/\ (Called /\ last'.op = "deleteDatabase")
          => (/\ inst[last'.obj].origin = "bootstrap"
              /\ last'.obj \in held
              /\ last'.name = inst[last'.obj].name
              /\ IF inst[last'.obj].deleted
                   THEN /\ last'.state = "rejected"
                        /\ last'.err = "AlreadyDeletedError"
                        /\ last'.nreq = 0
                   ELSE last'.state = "pending" /\ last'.nreq = 1)
     /\ \A c \in DOMAIN calls :
          (/\ calls[c].op = "deleteDatabase"
           /\ calls' = RemoveAt(calls, c)
           /\ last'.served)
            => (/\ last'.state = "resolved"
                /\ inst'[calls[c].obj].deleted
                /\ last'.obj = calls[c].obj)]_vars

\* a tearDown() after the one that deleted the database has been rejected
C18_Witness ==
  /\ last.op = "deleteDatabase"
  /\ last.err = "AlreadyDeletedError"
  /\ inst[last.obj].origin = "bootstrap"
  /\ inst[last.obj].deleted

\* body.status as the setRules callback reads it (instance.js:326): 'ok',
\* another value, or undefined when the body has no such field
StatusField(b) ==
  CASE b = "ok" -> "ok"
    [] b = "statusFail" -> "fail"
    [] OTHER -> "undefined"

\* The four remote outcomes setRules rejects on: a transport error, a status
\* above 299, a body with an error field, a body whose status is not 'ok'
Refused(r) ==
  \/ r.err
  \/ r.status > 299
  \/ r.body = "error"
  \/ r.body # "absent" /\ StatusField(r.body) # "ok"

\* C19: setRules on a non-deleted instance sends exactly one PUT for every
\* rules object it is passed, whatever the object holds (null and undefined
\* are no objects), and its promise is settled by the callback of that PUT
\* only: rejected if and only if the response is a transport error, a status
\* above 299, a body with an error field or a body whose status field is not
\* 'ok' (a body without a status field included), resolved otherwise.
C19_SetRulesRemoteOnly ==
  [][/\ (/\ Called
         /\ last'.op = "setRules"
         /\ ~inst[last'.obj].deleted
         /\ ~ThrowsOnRead(last'.doc))
          => (/\ last'.state = "pending"
              /\ last'.nreq = 1
              /\ last'.out = Normalized(last'.doc)
              /\ calls' = Append(calls, last'))
     /\ \A c \in DOMAIN calls :
          (calls[c].op = "setRules" /\ calls' = RemoveAt(calls, c))
            => (/\ last'.nreq = 1
                /\ last'.doc = calls[c].doc
                /\ last'.state \in {"resolved", "rejected"}
                /\ last'.state = "rejected" <=> Refused(last'.resp))]_vars

\* setRules with a document the remote refused as invalid has rejected, and
\* setRules with another document has resolved
C19_Witness ==
  /\ last.op = "setRules"
  /\ last.pc = "done"
  /\ last.state = "rejected"
  /\ last.resp = [err |-> FALSE, status |-> 200, body |-> "error"]
  /\ last.doc = Wrap(".read", Leaf("true"))

\* the host part of the endpoint URL
Host == "firebaseio.com"

\* toString() was called in this step, returned a string without failing,
\* sent nothing and left the state as it was
ToStringIsPure ==
  /\ last'.state = "returned"
  /\ ~last'.threw
  /\ last'.nreq = 0
  /\ calls' = calls
  /\ UNCHANGED <<dbs, inst, held, hist, remoteDbs, remoteSecrets, remoteRules, nextToken>>

\* C20 as stated: in every lifecycle state toString() returns
\* 'https://' + name + '.' + host + '/', with the slash at the end, never
\* fails, sends no request and changes no state.
C20_ToStringWithSlash ==
  [][(Called /\ last'.op = "toString")
       => (/\ last'.out = Leaf("https://" \o inst[last'.obj].name \o "." \o Host \o "/")
           /\ ToStringIsPure)]_vars

\* C20, amended: in every lifecycle state (not ready, ready, readiness
\* failed, deleted) toString() returns 'https://' + name + '.' + host, with
\* no slash at the end, never fails, sends no request and changes no state.
C20_ToStringNoSlash ==
  [][(Called /\ last'.op = "toString")
       => (/\ last'.out = Leaf("https://" \o inst[last'.obj].name \o "." \o Host)
           /\ ToStringIsPure)]_vars

\* toString() has returned the URL of a deleted Instance
C20_Witness ==
  /\ last.op = "toString"
  /\ inst[last.obj].deleted
  /\ last.out = Leaf("https://fb1.firebaseio.com")

\* The reason the fixed order of checks gives for response r: transport
\* error, then status other than 200, then body.error, then success false
EarliestReason(r) ==
  IF r.err THEN "TransportError"
  ELSE IF r.status # 200 THEN "HttpStatusError"
  ELSE IF r.body = "error" THEN "RemoteError"
  ELSE IF r.body = "successFalse" THEN "CredentialOrServerError"
  ELSE "none"

\* C21: a createDatabase or deleteDatabase call whose response fails one or
\* several of the checks is rejected with the earliest reason of the order
\* transport error, status other than 200, body.error, success false; a
\* delivered transport error always rejects the promise with that error.
C21_EarliestReason ==
  [][\A c \in DOMAIN calls :
       (/\ calls[c].op \in {"createDatabase", "deleteDatabase"}
        /\ calls' = RemoveAt(calls, c)
        /\ EarliestReason(last'.resp) # "none")
         => (/\ last'.state = "rejected"
             /\ last'.err = EarliestReason(last'.resp))]_vars

\* Response r is a success in everything but the token fields: no transport
\* error, status 200, no error field, success not false, and personalToken
\* or firebaseToken is not there (a response without a body has neither)
TokenFieldMissing(r) ==
  /\ ~r.err
  /\ r.status = 200
  /\ r.body \in {"absent", "nonjson", "missing", "missing2"}

\* C22: the callback of the token request resolves the ready promise if and
\* only if the response has no transport error, status 200, no error field,
\* success not false and both token fields; when it resolves both tokens are
\* stored; when a token field is missing it rejects with the missing-token
\* error (seen by the getDatabase call that waits for ready) and stores
\* neither token.
C22_ReadyIffTokens ==
  [][\A i \in DOMAIN inst : \A r \in Responses("token") :
       InstanceReadyCallback(i, r)
         => (/\ inst'[i].ready = "resolved"
                  <=> (~r.err /\ r.status = 200 /\ r.body = "ok")
             /\ inst'[i].ready = "resolved"
                  => (inst'[i].personalToken /\ inst'[i].firebaseToken)
             /\ TokenFieldMissing(r)
                  => (/\ inst'[i].ready = "rejected"
                      /\ ~inst'[i].personalToken
                      /\ ~inst'[i].firebaseToken
                      /\ \A c \in DOMAIN calls :
                           (calls[c].pc = "ready" /\ calls[c].obj = i)
                             => last'.err = "MissingTokenError"))]_vars

\* The tokens of Instance i as far as they are known: the cached list, or
\* the list of the remote while nothing is cached
InstanceTokens(i) ==
  IF inst[i].cache = "array" THEN {inst[i].authTokens[k] : k \in DOMAIN inst[i].authTokens}
  ELSE IF inst[i].cache = "none"
    THEN {remoteSecrets[inst[i].name][k] : k \in DOMAIN remoteSecrets[inst[i].name]}
  ELSE {}

\* C23 as stated: removeAuthToken(t) on a live Instance with t not among its
\* tokens rejects with the unknown-token error and has sent no request,
\* whether or not the cache was populated when the call started.
C23_UnknownBeforeAnyRequest ==
  [][(/\ Called
      /\ last'.op = "removeAuthToken"
      /\ ~inst[last'.obj].deleted
      /\ last'.tok \notin InstanceTokens(last'.obj))
       => (/\ last'.state = "rejected"
           /\ last'.err = "UnknownTokenError"
           /\ last'.nreq = 0)]_vars

\* The GET of the token list was answered with something getAuthTokens
\* resolves with
FetchResolved(r) == ~r.err /\ r.status = 200 /\ r.body \notin {"absent", "error"}

\* C23, amended: removeAuthToken(t) on a live Instance with a populated
\* cache that lacks t rejects at once with the unknown-token error and sends
\* nothing; with no cache it first sends one GET for the list, and when that
\* fetch resolves with a list that lacks t it rejects with the unknown-token
\* error having sent that GET only; a DELETE is sent only for a token found
\* in the list.
C23_UnknownBeforeDelete ==
  [][/\ (/\ Called
         /\ last'.op = "removeAuthToken"
         /\ ~inst[last'.obj].deleted)
          => IF inst[last'.obj].cache = "none"
               THEN last'.state = "pending" /\ last'.pc = "fetch" /\ last'.nreq = 1
             ELSE IF NoSuchToken(inst[last'.obj], last'.tok)
               THEN /\ last'.state = "rejected"
                    /\ last'.err = "UnknownTokenError"
                    /\ last'.nreq = 0
             ELSE last'.pc = "http" /\ last'.nreq = 1
     /\ \A c \in DOMAIN calls :
          (/\ calls[c].op = "removeAuthToken"
           /\ calls[c].pc = "fetch"
           /\ last' # last
           /\ last'.resp # NoResponse
           /\ (calls' = RemoveAt(calls, c) \/ calls' = [calls EXCEPT ![c] = last']))
            => (/\ (FetchResolved(last'.resp) /\ NoSuchToken(inst'[last'.obj], last'.tok))
                    => (/\ last'.state = "rejected"
                        /\ last'.err = "UnknownTokenError"
                        /\ last'.nreq = 1)
                /\ last'.pc = "http"
                    => (/\ ~NoSuchToken(inst'[last'.obj], last'.tok)
                        /\ last'.nreq = 2))]_vars

\* removeAuthToken of a token the remote never had has fetched the list and
\* rejected
C23_Witness ==
  /\ last.op = "removeAuthToken"
  /\ last.state = "rejected"
  /\ last.err = "UnknownTokenError"
  /\ last.nreq = 1
  /\ inst[last.obj].cache = "array"
  /\ inst[last.obj].authTokens = <<0>>

\* seq without one of its elements
OneRemoved(seq) == {RemoveAt(seq, k) : k \in DOMAIN seq}

\* C24: once the token cache of an Instance is populated, a step changes it
\* only by appending one token, in the callback of an addAuthToken that
\* resolves, or by removing one token, in the callback of a removeAuthToken
\* that resolves; the answer of a fetch that arrives later never replaces it.
C24_CacheNeverReplaced ==
  [][\A i \in DOMAIN inst :
       (/\ inst[i].cache # "none"
        /\ <<inst'[i].cache, inst'[i].authTokens>> # <<inst[i].cache, inst[i].authTokens>>)
         => (/\ inst[i].cache = "array"
             /\ inst'[i].cache = "array"
             /\ last'.obj = i
             /\ last'.state = "resolved"
             /\ \/ /\ last'.op = "addAuthToken"
                   /\ inst'[i].authTokens = Append(inst[i].authTokens, last'.val)
                \/ /\ last'.op = "removeAuthToken"
                   /\ inst'[i].authTokens \in OneRemoved(inst[i].authTokens))]_vars

\* The step is the delivery of a response to call c
Delivered(c) ==
  /\ last' # last
  /\ last'.resp # NoResponse
  /\ (calls' = RemoveAt(calls, c) \/ calls' = [calls EXCEPT ![c] = last'])

\* The Instance methods that test the deleted flag when they are called
FlagTestingMethods ==
  {"getAuthTokens", "addAuthToken", "removeAuthToken", "getRules", "setRules"}

\* C25: a getAuthTokens, addAuthToken, removeAuthToken, getRules or setRules
\* call sends no HTTP request for an Instance whose deleted flag is set,
\* neither when it is called nor in a later step of a call that started
\* before the deletion; in particular a removeAuthToken call that is between
\* its fetch and its DELETE when deleteDatabase succeeds does not send the
\* DELETE.
C25_NoRequestAfterDeleted ==
  [][/\ (/\ Called
         /\ last'.op \in FlagTestingMethods
         /\ inst[last'.obj].deleted)
          => last'.nreq = 0
     /\ \A c \in DOMAIN calls :
          (/\ calls[c].op \in FlagTestingMethods
           /\ inst[calls[c].obj].deleted
           /\ Delivered(c))
            => (last'.pc # "http" /\ last'.nreq = calls[c].nreq)]_vars

\* C26: the Instances that getDatabase calls have resolved with hold at most
\* one live Instance object for each name, also when the calls for a name
\* overlap while the registry has no entry for it.
C26_OneLiveInstancePerName ==
  \A i, j \in held :
    (/\ inst[i].origin = "get"
     /\ inst[j].origin = "get"
     /\ inst[i].name = inst[j].name
     /\ ~inst[i].deleted
     /\ ~inst[j].deleted)
      => i = j
====
